---------------------------- MODULE Spec2Model ----------------------------
(***************************************************************************)
(* A model of output_viewer/htmlbuilder.py: the tag-balancing TreeProxy,   *)
(* the HTMLBuilder node tree (attrs, find, build), Document.build and      *)
(* BootstrapNavbar.setLevel.                                               *)
(*                                                                         *)
(* Strings.  A Python str is a sequence of tokens.  The characters the     *)
(* code inspects ("/", "_", "-", and the segment "..") are tokens of their *)
(* own; a run of other characters that the code never looks into may be    *)
(* one token.                                                              *)
(*                                                                         *)
(* The sink.  `root` / `real_builder` is any object with start, end, data  *)
(* and close; it is modelled by the sequence of calls it has received.     *)
(* Each recorded call carries `by`: the id of the node whose build() made  *)
(* the call, or 0 for a call forwarded by a TreeProxy.                     *)
(***************************************************************************)
EXTENDS Integers, Sequences, FiniteSets, TLC

VARIABLES
    proxy,      \* SpecProxy: the TreeProxy under test, [builder, open]
    call,       \* the last method called, [op, tag] (and its arguments)
    err,        \* the exception the last operation raised, or "none"
    calls,      \* number of operations performed so far
    nodes,      \* the node objects, by id; node 1 is the one the caller holds
    phase,      \* "construct" while the tree is being assembled, then "built" / "found"
    out,        \* the calls the sink of the last build() received
    matches,    \* the list the last find() returned
    clean_attrs,      \* the mapping the last attrs() returned
    nodes0      \* SpecNav: the node objects as the constructor left them

proxyVars == <<proxy>>
treeVars == <<nodes, phase, out, matches, clean_attrs, nodes0>>
vars == <<proxy, call, err, calls, nodes, phase, out, matches, clean_attrs, nodes0>>

----------------------------------------------------------------------------
(* Bounds *)

MaxCalls == 5

MaxSize == 4

MaxAttrSize == 4

MaxLevel == 2

MaxExtra == 1

MaxDocSize == 3

MaxHrefLen == 4

MaxSetLevels == 2

Tags == {"div", "a"}

----------------------------------------------------------------------------
(* Sequences *)

Range(s) == {s[i] : i \in 1..Len(s)}

Last(s) == s[Len(s)]

Front(s) == SubSeq(s, 1, Len(s) - 1)

\* The empty dict.
NoAttrs == <<>>

----------------------------------------------------------------------------
(* Child strings.  A str appended to a node is modelled by its text `s`     *)
(* (tokens; empty when it is markup) and by what the XML parser does when   *)
(* the str is fed to it: the events it delivers to its target, in order,    *)
(* and whether it then raises (a parse error, or a failure to construct     *)
(* the parser at all, which is the case events = <<>>).                     *)

Text(s) == [s |-> s, events |-> <<>>, raises |-> TRUE]

Fragment(events, raises) == [s |-> <<>>, events |-> events, raises |-> raises]

NoText == Text(<<>>)

\* A piece of character data delivered by the parser.
Chunk == Text(<<"x">>)

ParserEvents ==
    [ev : {"start", "end"}, tag : Tags] \cup {[ev |-> "data", tag |-> ""]}

\* The sequences over S of length at most n.
SeqsUpTo(S, n) == UNION {[1..l -> S] : l \in 0..n}

----------------------------------------------------------------------------
(* The sink: calls received, in order *)

StartEv(tagname, attrs, by) ==
    [ev |-> "start", tag |-> tagname, attrs |-> attrs, text |-> NoText, by |-> by]

EndEv(tagname, by) ==
    [ev |-> "end", tag |-> tagname, attrs |-> NoAttrs, text |-> NoText, by |-> by]

DataEv(text, by) ==
    [ev |-> "data", tag |-> "", attrs |-> NoAttrs, text |-> text, by |-> by]

CloseEv(by) ==
    [ev |-> "close", tag |-> "", attrs |-> NoAttrs, text |-> NoText, by |-> by]

----------------------------------------------------------------------------
(* class TreeProxy *)

TreeProxy_init(real_builder) == [builder |-> real_builder, open |-> <<>>]

TreeProxy_start(p, tagname, attrs) ==
    [builder |-> Append(p.builder, StartEv(tagname, attrs, 0)),
     open    |-> Append(p.open, tagname)]

\* Mutant of InOpen: only the top of the stack is looked at.
InOpen_TopOnly(tagname, open) == open # <<>> /\ Last(open) = tagname

\* `tagname in self.open`
InOpen(tagname, open) == \E i \in 1..Len(open) : open[i] = tagname

\* Mutant of CloseAbove: the tags above tagname are dropped without a close.
RECURSIVE CloseAbove_Silent(_, _)
CloseAbove_Silent(p, tagname) ==
    IF tagname # Last(p.open)
    THEN CloseAbove_Silent([builder |-> p.builder, open |-> Front(p.open)], tagname)
    ELSE p

\* The while loop of end: close every tag above tagname.
RECURSIVE CloseAbove(_, _)
CloseAbove(p, tagname) ==
    IF tagname # Last(p.open)
    THEN CloseAbove([builder |-> Append(p.builder, EndEv(Last(p.open), 0)),
                     open    |-> Front(p.open)], tagname)
    ELSE p

\* Returns [p, err]: the proxy afterwards and the exception raised.
TreeProxy_end(p, tagname) ==
    IF ~InOpen(tagname, p.open)
    THEN [p |-> p, err |-> "ValueError"]
    ELSE LET q == CloseAbove(p, tagname)
         IN  [p   |-> [builder |-> Append(q.builder, EndEv(tagname, 0)),
                       open    |-> Front(q.open)],
              err |-> "none"]

\* Mutant of TreeProxy_cleanup: the open tags are closed in opening order.
RECURSIVE TreeProxy_cleanup_Fifo(_)
TreeProxy_cleanup_Fifo(p) ==
    IF p.open # <<>>
    THEN TreeProxy_cleanup_Fifo([builder |-> Append(p.builder, EndEv(Head(p.open), 0)),
                                 open    |-> Tail(p.open)])
    ELSE p

RECURSIVE TreeProxy_cleanup(_)
TreeProxy_cleanup(p) ==
    IF p.open # <<>>
    THEN TreeProxy_cleanup([builder |-> Append(p.builder, EndEv(Last(p.open), 0)),
                            open    |-> Front(p.open)])
    ELSE p

TreeProxy_data(p, text) ==
    [builder |-> Append(p.builder, DataEv(text, 0)), open |-> p.open]

----------------------------------------------------------------------------
(* class HTMLBuilder: the node objects *)

\* Attribute values: a str, or a dict of subkey -> str (in insertion order).
StrValue(s) == [isdict |-> FALSE, str |-> s, items |-> <<>>]

DictValue(items) == [isdict |-> TRUE, str |-> <<>>, items |-> items]

\* A child is another node (by id) or a str.
NodeChild(id) == [kind |-> "node", ref |-> id, str |-> NoText]

StrChild(text) == [kind |-> "str", ref |-> 0, str |-> text]

\* HTMLBuilder(tagname, **attrs) and its subclasses; `attrs` is the kwargs
\* dict, a sequence of [key, value] in insertion order.  The Document
\* fields are empty for every other class.
NewNode(cls, tagname, attrs) ==
    [cls |-> cls, tagname |-> tagname, attrs |-> attrs,
     children |-> <<>>, formatted |-> {},
     title |-> <<>>, metas |-> <<>>, stylesheets |-> <<>>, scripts |-> <<>>]

\* self.children.append(child)
HTMLBuilder_append(node, child) ==
    [node EXCEPT !.children = Append(@, child)]

\* Records the index of the new child, then appends it (indices from 1 here).
HTMLBuilder_append_formatted(node, formatted_text) ==
    [node EXCEPT !.formatted = @ \cup {Len(node.children) + 1},
                 !.children = Append(@, StrChild(formatted_text))]

\* tagname(), as overridden by the subclasses.
TagnameOf(node) ==
    CASE node.cls = "Document"          -> "body"
      [] node.cls = "Link"              -> "a"
      [] node.cls = "BootstrapDropdown" -> "li"
      [] node.cls = "BootstrapNavbar"   -> "nav"
      [] OTHER                          -> node.tagname

----------------------------------------------------------------------------
(* HTMLBuilder.attrs *)

RECURSIVE LStrip(_)
LStrip(s) == IF s # <<>> /\ Head(s) = "_" THEN LStrip(Tail(s)) ELSE s

RECURSIVE RStrip(_)
RStrip(s) == IF s # <<>> /\ Last(s) = "_" THEN RStrip(Front(s)) ELSE s

\* attr.strip("_")
Strip(s) == RStrip(LStrip(s))

\* clean_attrs[k] = v
SetItem(d, k, v) == [x \in (DOMAIN d) \cup {k} |-> IF x = k THEN v ELSE d[x]]

\* "%s-%s" % (attr, k)
Dashed(attr, k) == attr \o <<"-">> \o k

\* for k in value: clean_attrs["%s-%s" % (attr, k)] = value[k]
RECURSIVE ExpandDict(_, _, _, _)
ExpandDict(clean, attr, items, i) ==
    IF i > Len(items) THEN clean
    ELSE ExpandDict(SetItem(clean, Dashed(attr, items[i].key), StrValue(items[i].value)),
                    attr, items, i + 1)

\* Mutant of AttrsLoop: the outer key of a dict value is emitted as well.
RECURSIVE AttrsLoop_KeepOuter(_, _, _)
AttrsLoop_KeepOuter(clean, raw, i) ==
    IF i > Len(raw) THEN clean
    ELSE LET attr  == Strip(raw[i].key)
             value == raw[i].value
         IN  AttrsLoop_KeepOuter(
                 IF value.isdict
                 THEN ExpandDict(SetItem(clean, attr, value), attr, value.items, 1)
                 ELSE SetItem(clean, attr, value),
                 raw, i + 1)

\* for attr, value in self._attrs.items(): ...
RECURSIVE AttrsLoop(_, _, _)
AttrsLoop(clean, raw, i) ==
    IF i > Len(raw) THEN clean
    ELSE LET attr  == Strip(raw[i].key)
             value == raw[i].value
         IN  AttrsLoop(
                 IF value.isdict
                 THEN ExpandDict(clean, attr, value.items, 1)
                 ELSE SetItem(clean, attr, value),
                 raw, i + 1)

\* The flat mapping name -> value.
HTMLBuilder_attrs(node) == AttrsLoop(NoAttrs, node.attrs, 1)

----------------------------------------------------------------------------
(* os.path.join and str.split *)

\* posixpath.join(a, *p), for at least one argument.
RECURSIVE JoinFrom(_, _, _)
JoinFrom(path, parts, i) ==
    IF i > Len(parts) THEN path
    ELSE LET b == parts[i]
         IN  JoinFrom(IF b # <<>> /\ Head(b) = "/" THEN b
                      ELSE IF path = <<>> \/ Last(path) = "/" THEN path \o b
                      ELSE path \o <<"/">> \o b,
                      parts, i + 1)

os_path_join(parts) == JoinFrom(parts[1], parts, 2)

\* s.split("/")
RECURSIVE Split(_)
Split(s) ==
    LET cut == {i \in 1..Len(s) : s[i] = "/"}
    IN  IF cut = {} THEN <<s>>
        ELSE LET k == CHOOSE i \in cut : \A j \in cut : i <= j
             IN  <<SubSeq(s, 1, k - 1)>> \o Split(SubSeq(s, k + 1, Len(s)))

\* [".."] * level
Dots(level) == [i \in 1..level |-> <<"..">>]

----------------------------------------------------------------------------
(* class Document *)

\* {"rel": "stylesheet", "href": style, "type": "text/css"}
LinkAttrs(style) ==
    SetItem(SetItem(SetItem(NoAttrs, <<"rel">>, StrValue(<<"stylesheet">>)),
                    <<"href">>, StrValue(style)),
            <<"type">>, StrValue(<<"text/css">>))

\* {"type": "text/javascript", "src": script}
ScriptAttrs(script) ==
    SetItem(SetItem(NoAttrs, <<"type">>, StrValue(<<"text/javascript">>)),
            <<"src">>, StrValue(script))

DefaultScripts == <<<<"jquery-2.2.3.min.js">>, <<"bootstrap.min.js">>, <<"viewer.js">>>>

DefaultSheets == <<<<"bootstrap.min.css">>, <<"viewer.css">>>>

DefaultMetas ==
    <<SetItem(SetItem(NoAttrs, <<"name">>, StrValue(<<"viewport">>)),
              <<"content">>, StrValue(<<"width=device-width, intial-scale=1">>)),
      SetItem(NoAttrs, <<"charset">>, StrValue(<<"utf-8">>))>>

\* Document(title, level)
Document_init(title, level) ==
    [cls |-> "Document", tagname |-> "", attrs |-> <<>>,
     children |-> <<>>, formatted |-> {},
     title |-> title,
     metas |-> DefaultMetas,
     stylesheets |-> [i \in 1..Len(DefaultSheets) |->
                         os_path_join(Dots(level) \o <<<<"viewer">>, <<"css">>, DefaultSheets[i]>>)],
     scripts |-> [i \in 1..Len(DefaultScripts) |->
                     os_path_join(Dots(level) \o <<<<"viewer">>, <<"js">>, DefaultScripts[i]>>)]]

RECURSIVE MetaCalls(_, _, _)
MetaCalls(metas, i, by) ==
    IF i > Len(metas) THEN <<>>
    ELSE <<StartEv("meta", metas[i], by), EndEv("meta", by)>> \o MetaCalls(metas, i + 1, by)

RECURSIVE StyleCalls(_, _, _)
StyleCalls(sheets, i, by) ==
    IF i > Len(sheets) THEN <<>>
    ELSE <<StartEv("link", LinkAttrs(sheets[i]), by), EndEv("link", by)>>
         \o StyleCalls(sheets, i + 1, by)

RECURSIVE ScriptCalls(_, _, _)
ScriptCalls(scripts, i, by) ==
    IF i > Len(scripts) THEN <<>>
    ELSE <<StartEv("script", ScriptAttrs(scripts[i]), by), DataEv(Text(<<" ">>), by),
           EndEv("script", by)>>
         \o ScriptCalls(scripts, i + 1, by)

\* The calls of the `if root is None:` block.
HeadCalls(doc, by) ==
    <<StartEv("html", NoAttrs, by), StartEv("head", NoAttrs, by)>>
    \o (IF doc.title # <<>>
        THEN <<StartEv("title", NoAttrs, by), DataEv(Text(doc.title), by), EndEv("title", by)>>
        ELSE <<>>)
    \o MetaCalls(doc.metas, 1, by)
    \o StyleCalls(doc.stylesheets, 1, by)
    \o ScriptCalls(doc.scripts, 1, by)
    \o <<EndEv("head", by)>>

----------------------------------------------------------------------------
(* HTMLBuilder.find *)

\* Mutant of FindLoop: the matches inside a child come before the child.
RECURSIVE FindLoop_PostOrder(_, _, _, _, _)
RECURSIVE HTMLBuilder_find(_, _, _)

FindLoop_PostOrder(ns, n, tagname, i, found) ==
    IF i > Len(ns[n].children) THEN found
    ELSE LET c == ns[n].children[i]
         IN  IF c.kind = "node"
             THEN LET inner == found \o HTMLBuilder_find(ns, c.ref, tagname)
                  IN  FindLoop_PostOrder(ns, n, tagname, i + 1,
                          IF TagnameOf(ns[c.ref]) = tagname
                          THEN Append(inner, c) ELSE inner)
             ELSE FindLoop_PostOrder(ns, n, tagname, i + 1, found)

\* for c in self.children: ... ; `found` is the list `matches` so far.
RECURSIVE FindLoop(_, _, _, _, _)
FindLoop(ns, n, tagname, i, found) ==
    IF i > Len(ns[n].children) THEN found
    ELSE LET c == ns[n].children[i]
         IN  IF c.kind = "node"
             THEN LET m1 == IF TagnameOf(ns[c.ref]) = tagname
                            THEN Append(found, c) ELSE found
                  IN  FindLoop(ns, n, tagname, i + 1,
                               m1 \o HTMLBuilder_find(ns, c.ref, tagname))
             ELSE FindLoop(ns, n, tagname, i + 1, found)

HTMLBuilder_find(ns, n, tagname) == FindLoop(ns, n, tagname, 1, <<>>)

----------------------------------------------------------------------------
(* HTMLBuilder.build and Document.build *)

\* parser.feed(child): the parser delivers the events of the fragment to the
\* proxy, one by one, and stops at the first exception.  Returns [p, err].
RECURSIVE Feed(_, _, _)
Feed(p, events, i) ==
    IF i > Len(events) THEN [p |-> p, err |-> "none"]
    ELSE LET e == events[i]
         IN  CASE e.ev = "start" -> Feed(TreeProxy_start(p, e.tag, NoAttrs), events, i + 1)
               [] e.ev = "data"  -> Feed(TreeProxy_data(p, Chunk), events, i + 1)
               [] OTHER ->
                    LET r == TreeProxy_end(p, e.tag)
                    IN  IF r.err # "none" THEN r ELSE Feed(r.p, events, i + 1)

\* The body of the try: proxy, parser, feed, cleanup.  Returns [p, err].
TryFormatted(root, child) ==
    LET fed == Feed(TreeProxy_init(root), child.events, 1)
    IN  IF fed.err # "none" THEN fed
        ELSE IF child.raises THEN [p |-> fed.p, err |-> "ParseError"]
        ELSE [p |-> TreeProxy_cleanup(fed.p), err |-> "none"]

\* A build in progress is [root, err]: the sink, and the exception that is
\* propagating ("none" when there is none).  While an exception propagates,
\* nothing more is done.
Running(root) == [root |-> root, err |-> "none"]

\* root.start / root.end / root.data / root.close
Call(b, e) ==
    IF b.err # "none" THEN b ELSE [root |-> Append(b.root, e), err |-> "none"]

\* Mutant of Caught: the exception is not caught.
Caught_Reraise(r, child, by) == [root |-> r.p.builder, err |-> r.err]

\* except Exception: root.data(str(child)); r is the outcome of the try.
Caught(r, child, by) ==
    IF r.err # "none"
    THEN [root |-> Append(r.p.builder, DataEv(child, by)), err |-> "none"]
    ELSE [root |-> r.p.builder, err |-> "none"]

\* try: ... except Exception: ...
FormattedChild(b, child, by) ==
    IF b.err # "none" THEN b ELSE Caught(TryFormatted(b.root, child), child, by)

RECURSIVE Build(_, _, _, _)

\* The body of the loop over the children, for child i.
BuildChild(ns, n, i, b) ==
    IF ns[n].children[i].kind = "node"
    THEN Build(ns, ns[n].children[i].ref, b, FALSE)
    ELSE IF i \in ns[n].formatted
    THEN FormattedChild(b, ns[n].children[i].str, n)
    ELSE Call(b, DataEv(ns[n].children[i].str, n))

\* for i, child in enumerate(self.children): ...
RECURSIVE BuildChildren(_, _, _, _)
BuildChildren(ns, n, i, b) ==
    IF i > Len(ns[n].children) THEN b
    ELSE BuildChildren(ns, n, i + 1, BuildChild(ns, n, i, b))

\* if was_root: root = root.close()
CloseIf(b, isNone, by) == IF isNone THEN Call(b, CloseEv(by)) ELSE b

\* HTMLBuilder.build(root); isNone says that root was None, and then the
\* sink of b is the empty TreeBuilder made for this call.
HTMLBuilder_build(ns, n, b, isNone) ==
    CloseIf(Call(BuildChildren(ns, n, 1,
                               Call(b, StartEv(TagnameOf(ns[n]), HTMLBuilder_attrs(ns[n]), n))),
                 EndEv(TagnameOf(ns[n]), n)),
            isNone, n)

\* if root is None: ... (html, head and its content)
DocumentHead(b, doc, isNone, by) ==
    IF isNone /\ b.err = "none" THEN Running(b.root \o HeadCalls(doc, by)) ELSE b

\* Document.build(root); super().build gets a sink in either case.
Document_build(ns, n, b, isNone) ==
    Call(Call(HTMLBuilder_build(ns, n, DocumentHead(b, ns[n], isNone, n), FALSE),
              EndEv("html", n)),
         CloseEv(n))

\* child.build(root=root): the method of the child's class.
Build(ns, n, b, isNone) ==
    IF ns[n].cls = "Document"
    THEN Document_build(ns, n, b, isNone)
    ELSE HTMLBuilder_build(ns, n, b, isNone)

----------------------------------------------------------------------------
(* SpecProxy: one TreeProxy driven by arbitrary calls *)

InitProxy ==
    /\ proxy = TreeProxy_init(<<>>)
    /\ call = [op |-> "init", tag |-> ""]
    /\ err = "none"
    /\ calls = 0
    /\ nodes = <<>>
    /\ phase = "proxy"
    /\ out = <<>>
    /\ matches = <<>>
    /\ clean_attrs = NoAttrs
    /\ nodes0 = <<>>

Start(t) ==
    /\ calls < MaxCalls
    /\ proxy' = TreeProxy_start(proxy, t, NoAttrs)
    /\ call' = [op |-> "start", tag |-> t]
    /\ err' = "none"
    /\ calls' = calls + 1
    /\ UNCHANGED treeVars

End(t) ==
    /\ calls < MaxCalls
    /\ LET r == TreeProxy_end(proxy, t)
       IN  /\ proxy' = r.p
           /\ err' = r.err
    /\ call' = [op |-> "end", tag |-> t]
    /\ calls' = calls + 1
    /\ UNCHANGED treeVars

Data ==
    /\ calls < MaxCalls
    /\ proxy' = TreeProxy_data(proxy, Chunk)
    /\ call' = [op |-> "data", tag |-> ""]
    /\ err' = "none"
    /\ calls' = calls + 1
    /\ UNCHANGED treeVars

Cleanup ==
    /\ calls < MaxCalls
    /\ proxy' = TreeProxy_cleanup(proxy)
    /\ call' = [op |-> "cleanup", tag |-> ""]
    /\ err' = "none"
    /\ calls' = calls + 1
    /\ UNCHANGED treeVars

NextProxy ==
    \/ \E t \in Tags : Start(t)
    \/ \E t \in Tags : End(t)
    \/ Data
    \/ Cleanup

SpecProxy == InitProxy /\ [][NextProxy]_vars

----------------------------------------------------------------------------
(* Positions in the tree *)

\* The position of node x in its parent, as <<parent, index>>; <<0, 0>> for
\* a node that is no one's child.
Place(ns, x) ==
    LET P == UNION {{<<p, i>> : i \in {k \in 1..Len(ns[p].children) :
                                          ns[p].children[k] = NodeChild(x)}} :
                    p \in 1..Len(ns)}
    IN  IF P = {} THEN <<0, 0>> ELSE CHOOSE pi \in P : TRUE

\* The child indices leading from the root of the tree to x.
RECURSIVE PathOf(_, _)
PathOf(ns, x) ==
    LET pl == Place(ns, x)
    IN  IF pl[1] = 0 THEN <<>> ELSE Append(PathOf(ns, pl[1]), pl[2])

----------------------------------------------------------------------------
(* SpecBuild and SpecFind: a tree is assembled, then serialized or searched *)

\* Size of a tree: its nodes below the root, its str children, and the
\* parser events of its str children.
RECURSIVE ChildrenSize(_, _)
ChildrenSize(children, i) ==
    IF i > Len(children) THEN 0
    ELSE (IF children[i].kind = "str" THEN 1 + Len(children[i].str.events) ELSE 0)
         + ChildrenSize(children, i + 1)

RECURSIVE NodesSize(_, _)
NodesSize(ns, n) ==
    IF n > Len(ns) THEN 0
    ELSE ChildrenSize(ns[n].children, 1) + NodesSize(ns, n + 1)

Size(ns) == (Len(ns) - 1) + NodesSize(ns, 1)

\* The nodes a caller assembling the tree in document order still appends
\* to: the root, and the last child of such a node when it is a node.
\* Every tree can be assembled in that order, and each in one way only.
RECURSIVE Spine(_, _)
Spine(ns, n) ==
    {n} \cup (IF ns[n].children # <<>> /\ Last(ns[n].children).kind = "node"
              THEN Spine(ns, Last(ns[n].children).ref)
              ELSE {})

Fragments(k) ==
    IF k < 0 THEN {}
    ELSE {Fragment(e, r) : e \in SeqsUpTo(ParserEvents, k), r \in BOOLEAN}

Texts == {Text(<<"t">>)}

\* The one pre-formatted str of SpecFind.
Markup == Fragment(<<[ev |-> "start", tag |-> "a"], [ev |-> "end", tag |-> "a"]>>, FALSE)

InitTree ==
    /\ nodes = <<NewNode("HTMLBuilder", "div", <<>>)>>
    /\ phase = "construct"
    /\ out = <<>>
    /\ matches = <<>>
    /\ clean_attrs = NoAttrs
    /\ nodes0 = <<>>
    /\ call = [op |-> "init", tag |-> ""]
    /\ err = "none"
    /\ calls = 0
    /\ proxy = TreeProxy_init(<<>>)

\* append_tag(tagname): a new HTMLBuilder, appended to node n.
AppendTag(n, t) ==
    /\ phase = "construct"
    /\ n \in Spine(nodes, 1)
    /\ Size(nodes) + 1 <= MaxSize
    /\ nodes' = Append([nodes EXCEPT ![n] = HTMLBuilder_append(@, NodeChild(Len(nodes) + 1))],
                       NewNode("HTMLBuilder", t, <<>>))
    /\ call' = [op |-> "append_tag", tag |-> t]
    /\ calls' = calls + 1
    /\ UNCHANGED <<phase, out, matches, err, proxy, clean_attrs, nodes0>>

\* append(child) with a str.
AppendStr(n, s) ==
    /\ phase = "construct"
    /\ n \in Spine(nodes, 1)
    /\ Size(nodes) + 1 <= MaxSize
    /\ nodes' = [nodes EXCEPT ![n] = HTMLBuilder_append(@, StrChild(s))]
    /\ call' = [op |-> "append", tag |-> ""]
    /\ calls' = calls + 1
    /\ UNCHANGED <<phase, out, matches, err, proxy, clean_attrs, nodes0>>

\* append_formatted(formatted_text).
AppendFormatted(n, f) ==
    /\ phase = "construct"
    /\ n \in Spine(nodes, 1)
    /\ Size(nodes) + 1 + Len(f.events) <= MaxSize
    /\ nodes' = [nodes EXCEPT ![n] = HTMLBuilder_append_formatted(@, f)]
    /\ call' = [op |-> "append_formatted", tag |-> ""]
    /\ calls' = calls + 1
    /\ UNCHANGED <<phase, out, matches, err, proxy, clean_attrs, nodes0>>

\* build() on the root of the tree, with no sink given.
BuildTree ==
    /\ phase = "construct"
    /\ LET r == HTMLBuilder_build(nodes, 1, Running(<<>>), TRUE)
       IN  /\ out' = r.root
           /\ err' = r.err
    /\ phase' = "built"
    /\ call' = [op |-> "build", tag |-> ""]
    /\ calls' = calls + 1
    /\ UNCHANGED <<nodes, matches, proxy, clean_attrs, nodes0>>

\* find(tagname) on node n.
Find(n, t) ==
    /\ phase = "construct"
    /\ matches' = HTMLBuilder_find(nodes, n, t)
    /\ phase' = "found"
    /\ call' = [op |-> "find", tag |-> t, node |-> n]
    /\ err' = "none"
    /\ calls' = calls + 1
    /\ UNCHANGED <<nodes, out, proxy, clean_attrs, nodes0>>

NextBuild ==
    \/ \E n \in 1..Len(nodes), t \in Tags : AppendTag(n, t)
    \/ \E n \in 1..Len(nodes), s \in Texts : AppendStr(n, s)
    \/ \E n \in 1..Len(nodes), f \in Fragments(MaxSize - Size(nodes) - 1) : AppendFormatted(n, f)
    \/ BuildTree

SpecBuild == InitTree /\ [][NextBuild]_vars

NextFind ==
    \/ \E n \in 1..Len(nodes), t \in Tags : AppendTag(n, t)
    \/ \E n \in 1..Len(nodes), s \in Texts : AppendStr(n, s)
    \/ \E n \in 1..Len(nodes) : AppendFormatted(n, Markup)
    \/ \E n \in 1..Len(nodes), t \in Tags : Find(n, t)

SpecFind == InitTree /\ [][NextFind]_vars

----------------------------------------------------------------------------
(* SpecAttrs: a node is constructed from keyword arguments, then attrs() *)

KeyTokens == {"_", "c", "-"}

SubItems == {<<>>,
             <<[key |-> <<"c">>, value |-> <<"v">>]>>,
             <<[key |-> <<"_">>, value |-> <<"w">>]>>,
             <<[key |-> <<"c">>, value |-> <<"v">>], [key |-> <<"_">>, value |-> <<"w">>]>>}

AttrValues == {StrValue(<<"v">>), StrValue(<<"w">>)} \cup {DictValue(it) : it \in SubItems}

\* Size of a kwargs dict: the tokens of its keys and the items of its dict values.
RECURSIVE AttrSize(_, _)
AttrSize(raw, i) ==
    IF i > Len(raw) THEN 0
    ELSE Len(raw[i].key) + Len(raw[i].value.items) + AttrSize(raw, i + 1)

InitAttrs ==
    /\ nodes = <<NewNode("HTMLBuilder", "div", <<>>)>>
    /\ phase = "construct"
    /\ clean_attrs = NoAttrs
    /\ out = <<>>
    /\ matches = <<>>
    /\ nodes0 = <<>>
    /\ call = [op |-> "init", tag |-> ""]
    /\ err = "none"
    /\ calls = 0
    /\ proxy = TreeProxy_init(<<>>)

\* HTMLBuilder(tagname, ..., k=v): one more keyword argument of the
\* constructor call; the keys of a kwargs dict are distinct.
Kwarg(k, v) ==
    /\ phase = "construct"
    /\ k # <<>>
    /\ \A i \in 1..Len(nodes[1].attrs) : nodes[1].attrs[i].key # k
    /\ AttrSize(nodes[1].attrs, 1) + Len(k) + Len(v.items) <= MaxAttrSize
    /\ nodes' = [nodes EXCEPT ![1].attrs = Append(@, [key |-> k, value |-> v])]
    /\ call' = [op |-> "kwarg", tag |-> ""]
    /\ calls' = calls + 1
    /\ UNCHANGED <<phase, clean_attrs, out, matches, nodes0, err, proxy>>

\* attrs() on the node.
Attrs ==
    /\ phase = "construct"
    /\ clean_attrs' = HTMLBuilder_attrs(nodes[1])
    /\ phase' = "done"
    /\ call' = [op |-> "attrs", tag |-> ""]
    /\ err' = "none"
    /\ calls' = calls + 1
    /\ UNCHANGED <<nodes, out, matches, nodes0, proxy>>

NextAttrs ==
    \/ \E k \in SeqsUpTo(KeyTokens, MaxAttrSize - AttrSize(nodes[1].attrs, 1)),
          v \in AttrValues : Kwarg(k, v)
    \/ Attrs

SpecAttrs == InitAttrs /\ [][NextAttrs]_vars

----------------------------------------------------------------------------
(* SpecDoc: a Document is filled, possibly put into another node, and built *)

Titles == {<<>>, <<"T">>}

\* The wrapper of the Document: the node whose child it is, or 0.
Wrapper(ns) == Place(ns, 1)[1]

InitDoc ==
    /\ \E title \in Titles, level \in 0..MaxLevel :
          nodes = <<Document_init(title, level)>>
    /\ phase = "construct"
    /\ out = <<>>
    /\ matches = <<>>
    /\ clean_attrs = NoAttrs
    /\ nodes0 = <<>>
    /\ call = [op |-> "init", tag |-> ""]
    /\ err = "none"
    /\ calls = 0
    /\ proxy = TreeProxy_init(<<>>)

\* append_script(path)
AppendScript(path) ==
    /\ phase = "construct"
    /\ Len(nodes[1].scripts) < Len(DefaultScripts) + MaxExtra
    /\ nodes' = [nodes EXCEPT ![1].scripts = Append(@, path)]
    /\ call' = [op |-> "append_script", tag |-> ""]
    /\ calls' = calls + 1
    /\ UNCHANGED <<phase, out, matches, err, proxy, clean_attrs, nodes0>>

\* append_style(path)
AppendStyle(path) ==
    /\ phase = "construct"
    /\ Len(nodes[1].stylesheets) < Len(DefaultSheets) + MaxExtra
    /\ nodes' = [nodes EXCEPT ![1].stylesheets = Append(@, path)]
    /\ call' = [op |-> "append_style", tag |-> ""]
    /\ calls' = calls + 1
    /\ UNCHANGED <<phase, out, matches, err, proxy, clean_attrs, nodes0>>

\* append_meta(attrs)
AppendMeta(attrs) ==
    /\ phase = "construct"
    /\ Len(nodes[1].metas) < Len(DefaultMetas) + MaxExtra
    /\ nodes' = [nodes EXCEPT ![1].metas = Append(@, attrs)]
    /\ call' = [op |-> "append_meta", tag |-> ""]
    /\ calls' = calls + 1
    /\ UNCHANGED <<phase, out, matches, err, proxy, clean_attrs, nodes0>>

\* h = HTMLBuilder(); h.append(document): the Document becomes a child.
Wrap ==
    /\ phase = "construct"
    /\ Wrapper(nodes) = 0
    /\ nodes' = Append(nodes, HTMLBuilder_append(NewNode("HTMLBuilder", "div", <<>>),
                                                 NodeChild(1)))
    /\ call' = [op |-> "append", tag |-> ""]
    /\ calls' = calls + 1
    /\ UNCHANGED <<phase, out, matches, err, proxy, clean_attrs, nodes0>>

\* document.build(): the outermost serialization.
BuildDocument ==
    /\ phase = "construct"
    /\ Wrapper(nodes) = 0
    /\ LET r == Document_build(nodes, 1, Running(<<>>), TRUE)
       IN  /\ out' = r.root
           /\ err' = r.err
    /\ phase' = "built"
    /\ call' = [op |-> "build", tag |-> ""]
    /\ calls' = calls + 1
    /\ UNCHANGED <<nodes, matches, proxy, clean_attrs, nodes0>>

\* h.build() on the wrapper: the Document is serialized as a nested child.
BuildWrapper ==
    /\ phase = "construct"
    /\ Wrapper(nodes) # 0
    /\ LET r == HTMLBuilder_build(nodes, Wrapper(nodes), Running(<<>>), TRUE)
       IN  /\ out' = r.root
           /\ err' = r.err
    /\ phase' = "built"
    /\ call' = [op |-> "build", tag |-> ""]
    /\ calls' = calls + 1
    /\ UNCHANGED <<nodes, matches, proxy, clean_attrs, nodes0>>

\* The body is filled before the Document is put into another node.
CanGrow == Wrapper(nodes) = 0 /\ Size(nodes) < MaxDocSize

NextDoc ==
    \/ AppendScript(<<"extra.js">>)
    \/ AppendStyle(<<"extra.css">>)
    \/ AppendMeta(SetItem(NoAttrs, <<"name">>, StrValue(<<"author">>)))
    \/ \E n \in 1..Len(nodes), t \in Tags : CanGrow /\ AppendTag(n, t)
    \/ \E n \in 1..Len(nodes), s \in Texts : CanGrow /\ AppendStr(n, s)
    \/ \E n \in 1..Len(nodes) : CanGrow /\ AppendFormatted(n, Markup)
    \/ Wrap
    \/ BuildDocument
    \/ BuildWrapper

SpecDoc == InitDoc /\ [][NextDoc]_vars

----------------------------------------------------------------------------
(* class BootstrapDropdown, class BootstrapNavbar *)

\* One entry of a kwargs dict.
Kw(k, v) == [key |-> k, value |-> v]

\* "href" in l._attrs
HasKey(attrs, k) == \E i \in 1..Len(attrs) : attrs[i].key = k

\* l._attrs["href"], for a key that is there
GetItem(attrs, k) == attrs[CHOOSE i \in 1..Len(attrs) : attrs[i].key = k].value

\* l._attrs["href"] = v, for a key that is there
PutItem(attrs, k, v) ==
    [i \in 1..Len(attrs) |-> IF attrs[i].key = k THEN Kw(k, v) ELSE attrs[i]]

\* The `links` argument: a dict name -> href, or name -> dict title -> href,
\* as the sequence of its items in insertion order.
PlainLink(name, href) == [name |-> name, isdict |-> FALSE, href |-> href, items |-> <<>>]

DictLink(name, items) == [name |-> name, isdict |-> TRUE, href |-> <<>>, items |-> items]

Item(name, href) == [name |-> name, href |-> href]

\* append_tag(tagname, **attrs) on node n; the new node gets id Len(ns) + 1.
HTMLBuilder_append_tag(ns, n, tagname, attrs) ==
    Append([ns EXCEPT ![n] = HTMLBuilder_append(@, NodeChild(Len(ns) + 1))],
           NewNode("HTMLBuilder", tagname, attrs))

\* append(s) on node n with a str.
HTMLBuilder_append_str(ns, n, s) ==
    [ns EXCEPT ![n] = HTMLBuilder_append(@, StrChild(Text(s)))]

\* li = ul.append_tag("li"); a = Link(href=...); a.append(name); li.append(a)
DropdownItem(ns, ul, name, href) ==
    Append([HTMLBuilder_append_tag(ns, ul, "li", <<>>)
               EXCEPT ![Len(ns) + 1] = HTMLBuilder_append(@, NodeChild(Len(ns) + 2))],
           HTMLBuilder_append(NewNode("Link", "div", <<Kw(<<"href">>, StrValue(href))>>),
                              StrChild(Text(name))))

\* for link_name in links: ...
RECURSIVE DropdownLinks(_, _, _, _)
DropdownLinks(ns, ul, links, i) ==
    IF i > Len(links) THEN ns
    ELSE DropdownLinks(DropdownItem(ns, ul, links[i].name, links[i].href), ul, links, i + 1)

\* The attributes of the dropdown's outer link.
ToggleAttrs ==
    <<Kw(<<"href">>, StrValue(<<"#">>)),
      Kw(<<"class", "_">>, StrValue(<<"dropdown-toggle">>)),
      Kw(<<"data">>, DictValue(<<Kw(<<"toggle">>, <<"dropdown">>)>>)),
      Kw(<<"aria">>, DictValue(<<Kw(<<"haspopup">>, <<"true">>),
                                 Kw(<<"expanded">>, <<"false">>)>>)),
      Kw(<<"role">>, StrValue(<<"button">>))>>

\* BootstrapDropdown(name, links): the new dropdown gets id Len(ns) + 1, its
\* outer link, the caret span and the ul the three ids after it.
BootstrapDropdown_init(ns, name, links) ==
    DropdownLinks(
        HTMLBuilder_append_tag(
            HTMLBuilder_append_tag(
                HTMLBuilder_append_str(
                    HTMLBuilder_append_tag(
                        Append(ns, NewNode("BootstrapDropdown", "div",
                                           <<Kw(<<"class", "_">>, StrValue(<<"dropdown">>))>>)),
                        Len(ns) + 1, "a", ToggleAttrs),
                    Len(ns) + 2, name),
                Len(ns) + 2, "span", <<Kw(<<"class", "_">>, StrValue(<<"caret">>))>>),
            Len(ns) + 1, "ul", <<Kw(<<"class", "_">>, StrValue(<<"dropdown-menu">>))>>),
        Len(ns) + 4, links, 1)

\* li = navbar_links.append_tag("li"); a = li.append_tag("a", href=url); a.append(title)
NavbarItem(ns, ul, name, href) ==
    HTMLBuilder_append_str(
        HTMLBuilder_append_tag(HTMLBuilder_append_tag(ns, ul, "li", <<>>),
                               Len(ns) + 1, "a", <<Kw(<<"href">>, StrValue(href))>>),
        Len(ns) + 2, name)

\* li = BootstrapDropdown(link, links[link]); navbar_links.append(li)
NavbarDropdown(ns, ul, name, items) ==
    [BootstrapDropdown_init(ns, name, items)
        EXCEPT ![ul] = HTMLBuilder_append(@, NodeChild(Len(ns) + 1))]

\* for link in links: ...
RECURSIVE NavbarLinks(_, _, _, _)
NavbarLinks(ns, ul, links, i) ==
    IF i > Len(links) THEN ns
    ELSE NavbarLinks(
             IF links[i].isdict
             THEN IF Len(links[i].items) = 0 THEN ns
                  ELSE IF Len(links[i].items) = 1
                  THEN NavbarItem(ns, ul, links[i].items[1].name, links[i].items[1].href)
                  ELSE NavbarDropdown(ns, ul, links[i].name, links[i].items)
             ELSE NavbarItem(ns, ul, links[i].name, links[i].href),
             ul, links, i + 1)

\* BootstrapNavbar(brand, root, links): node 1 is the navbar, 2 the container,
\* 3 the brand link, 4 the ul of the links.
BootstrapNavbar_init(brand, root, links) ==
    NavbarLinks(
        HTMLBuilder_append_tag(
            HTMLBuilder_append_str(
                HTMLBuilder_append_tag(
                    HTMLBuilder_append_tag(
                        <<NewNode("BootstrapNavbar", "div",
                                  <<Kw(<<"class", "_">>, StrValue(<<"navbar navbar-default">>))>>)>>,
                        1, "div", <<Kw(<<"class", "_">>, StrValue(<<"container-fluid">>))>>),
                    2, "a", <<Kw(<<"class", "_">>, StrValue(<<"navbar-brand">>)),
                              Kw(<<"href">>, StrValue(root))>>),
                3, brand),
            2, "ul", <<Kw(<<"class", "_">>, StrValue(<<"nav navbar-nav">>))>>),
        4, links, 1)

\* for p in parts: if p == ".." and len(filtered) == 0: continue; filtered.append(p)
RECURSIVE FilterLoop(_, _, _)
FilterLoop(parts, i, filtered) ==
    IF i > Len(parts) THEN filtered
    ELSE FilterLoop(parts, i + 1,
                    IF parts[i] = <<"..">> /\ Len(filtered) = 0
                    THEN filtered ELSE Append(filtered, parts[i]))

\* The body of the loop of setLevel for the anchor k whose href is rewritten.
\* os.path.join() without an argument is a TypeError.
Rewrite(ns, k, parts) ==
    IF parts = <<>> THEN [nodes |-> ns, err |-> "TypeError"]
    ELSE [nodes |-> [ns EXCEPT ![k].attrs =
                        PutItem(@, <<"href">>, StrValue(os_path_join(parts)))],
          err |-> "none"]

\* The body of the loop of setLevel for the anchor k; href[0] of an empty
\* str is an IndexError.
SetLevelStep(ns, k, level) ==
    IF ~HasKey(ns[k].attrs, <<"href">>) THEN [nodes |-> ns, err |-> "none"]
    ELSE IF GetItem(ns[k].attrs, <<"href">>).str = <<>>
    THEN [nodes |-> ns, err |-> "IndexError"]
    ELSE IF Head(GetItem(ns[k].attrs, <<"href">>).str) = "/"
    THEN [nodes |-> ns, err |-> "none"]
    ELSE Rewrite(ns, k,
                 Dots(level) \o FilterLoop(Split(GetItem(ns[k].attrs, <<"href">>).str), 1, <<>>))

\* for l in links: ...; an exception leaves the anchors before l rewritten.
RECURSIVE SetLevelLoop(_, _, _, _)
SetLevelLoop(r, links, i, level) ==
    IF i > Len(links) \/ r.err # "none" THEN r
    ELSE SetLevelLoop(SetLevelStep(r.nodes, links[i].ref, level), links, i + 1, level)

\* BootstrapNavbar.setLevel(level)
BootstrapNavbar_setLevel(ns, n, level) ==
    SetLevelLoop([nodes |-> ns, err |-> "none"], HTMLBuilder_find(ns, n, "a"), 1, level)

----------------------------------------------------------------------------
(* SpecNav: a navbar is constructed, and setLevel is called on it *)

\* The characters setLevel looks at ("/" and the segment "..") and another one.
HrefTokens == {"/", "..", "x"}

Hrefs(k) == SeqsUpTo(HrefTokens, k)

\* The `links` arguments with at most k tokens of href in all.
Links(k) ==
    {<<>>, <<DictLink(<<"menu">>, <<>>)>>}
    \cup {<<PlainLink(<<"page">>, h)>> : h \in Hrefs(k)}
    \cup {<<DictLink(<<"menu">>, <<Item(<<"one">>, h)>>)>> : h \in Hrefs(k)}
    \cup {<<DictLink(<<"menu">>, <<Item(<<"one">>, hs[1]), Item(<<"two">>, hs[2])>>)>> :
              hs \in {p \in Hrefs(k) \X Hrefs(k) : Len(p[1]) + Len(p[2]) <= k}}

InitNav ==
    /\ \E root \in Hrefs(MaxHrefLen) : \E links \in Links(MaxHrefLen - Len(root)) :
           nodes = BootstrapNavbar_init(<<"brand">>, root, links)
    /\ nodes0 = nodes
    /\ phase = "construct"
    /\ out = <<>>
    /\ matches = <<>>
    /\ clean_attrs = NoAttrs
    /\ call = [op |-> "init", tag |-> "", level |-> 0, n |-> 0]
    /\ err = "none"
    /\ calls = 0
    /\ proxy = TreeProxy_init(<<>>)

\* navbar.append_tag("a"): an anchor without href, added by the caller.
AppendAnchor ==
    /\ call.op = "init"
    /\ nodes' = HTMLBuilder_append_tag(nodes, 1, "a", <<>>)
    /\ nodes0' = nodes'
    /\ call' = [op |-> "append_tag", tag |-> "a", level |-> 0, n |-> 0]
    /\ calls' = calls + 1
    /\ UNCHANGED <<phase, out, matches, clean_attrs, err, proxy>>

\* navbar.setLevel(level); call.n counts the calls of setLevel.  The caller
\* goes on for as long as no call has raised.
SetLevel(level) ==
    /\ err = "none"
    /\ call.n < MaxSetLevels
    /\ LET r == BootstrapNavbar_setLevel(nodes, 1, level)
       IN  /\ nodes' = r.nodes
           /\ err' = r.err
    /\ phase' = "set"
    /\ call' = [op |-> "setLevel", tag |-> "", level |-> level, n |-> call.n + 1]
    /\ calls' = calls + 1
    /\ UNCHANGED <<out, matches, clean_attrs, nodes0, proxy>>

NextNav ==
    \/ AppendAnchor
    \/ \E level \in 0..MaxLevel : SetLevel(level)

SpecNav == InitNav /\ [][NextNav]_vars

----------------------------------------------------------------------------
(* Nesting of a recorded call sequence *)

\* Replays a call sequence: `stack` holds the start calls not yet ended and
\* `ok` says that every end so far named the innermost of them (same tag,
\* made by the same node, or both forwarded by a proxy).
RECURSIVE Nesting(_)
Nesting(log) ==
    IF log = <<>> THEN [ok |-> TRUE, stack |-> <<>>]
    ELSE LET r == Nesting(Front(log))
             e == Last(log)
         IN  CASE e.ev = "start" -> [ok |-> r.ok, stack |-> Append(r.stack, e)]
               [] e.ev = "end" ->
                    IF /\ r.stack # <<>>
                       /\ Last(r.stack).tag = e.tag
                       /\ Last(r.stack).by = e.by
                    THEN [ok |-> r.ok, stack |-> Front(r.stack)]
                    ELSE [ok |-> FALSE, stack |-> r.stack]
               [] OTHER -> r

TagsOf(stack) == [i \in 1..Len(stack) |-> stack[i].tag]

Count(log, ev, tag) == Cardinality({i \in 1..Len(log) : log[i].ev = ev /\ log[i].tag = tag})

----------------------------------------------------------------------------
(* Claims about TreeProxy, under SpecProxy *)

\* C1: the calls a TreeProxy forwards are properly nested at every point
\* (each forwarded end names the innermost forwarded start still open, and
\* the starts still open are exactly the proxy's stack); once cleanup has
\* run, every forwarded start has been ended and the stack is empty.
C1_ForwardedNested ==
    LET n == Nesting(proxy.builder)
    IN  /\ n.ok
        /\ TagsOf(n.stack) = proxy.open
        /\ call.op = "cleanup" => (proxy.open = <<>> /\ n.stack = <<>>)

\* [open div, open a] then cleanup forwards [close a, close div].
C1_Witness ==
    /\ call.op = "cleanup"
    /\ proxy.builder = <<StartEv("div", NoAttrs, 0), StartEv("a", NoAttrs, 0),
                         EndEv("a", 0), EndEv("div", 0)>>

\* C4: a close for tag T raises ValueError exactly when T is nowhere in the
\* stack of open tags; a close for a tag never opened, or whose every open
\* has already been closed, always raises.
C4_CloseFailsIffAbsent ==
    [][call'.op = "end" =>
         LET t == call'.tag
         IN  /\ err' = "ValueError" <=> ~(\E i \in DOMAIN proxy.open : proxy.open[i] = t)
             /\ Count(proxy.builder, "start", t) = 0 => err' = "ValueError"
             /\ Count(proxy.builder, "start", t) = Count(proxy.builder, "end", t)
                    => err' = "ValueError"]_vars

\* A close for a tag that was opened and already closed is refused.
C4_Witness ==
    /\ call = [op |-> "end", tag |-> "a"]
    /\ err = "ValueError"
    /\ proxy.builder = <<StartEv("div", NoAttrs, 0), StartEv("a", NoAttrs, 0), EndEv("a", 0)>>
    /\ proxy.open = <<"div">>

\* C9: an accepted close for T forwards one close per stack entry above the
\* topmost T, from the top down, then the close for T; the stack afterwards
\* is what was below that topmost T.
C9_CloseUnwindsToTopmost ==
    [][(call'.op = "end" /\ \E i \in DOMAIN proxy.open : proxy.open[i] = call'.tag) =>
         LET t == call'.tag
             n == Len(proxy.open)
             k == CHOOSE i \in 1..n :
                     /\ proxy.open[i] = t
                     /\ \A j \in (i+1)..n : proxy.open[j] # t
         IN  /\ err' = "none"
             /\ proxy'.open = SubSeq(proxy.open, 1, k - 1)
             /\ proxy'.builder =
                    proxy.builder
                    \o [j \in 1..(n - k) |-> EndEv(proxy.open[n - j + 1], 0)]
                    \o <<EndEv(t, 0)>>]_vars

\* [open div, open a, close div] forwards [open div, open a, close a, close div].
C9_Witness ==
    /\ call = [op |-> "end", tag |-> "div"]
    /\ err = "none"
    /\ proxy.builder = <<StartEv("div", NoAttrs, 0), StartEv("a", NoAttrs, 0),
                         EndEv("a", 0), EndEv("div", 0)>>

\* With the same tag open twice, the close ends only the inner one.
C9_WitnessDuplicate ==
    /\ call = [op |-> "end", tag |-> "div"]
    /\ err = "none"
    /\ proxy.open = <<"div">>
    /\ Count(proxy.builder, "start", "div") = 2

----------------------------------------------------------------------------
(* Claims about build, under SpecBuild *)

\* What the fragment does to a proxy of its own over an empty sink.
Alone(f) == TryFormatted(<<>>, f)

\* Processing the fragment raises: the parser does, or a close it delivers
\* names a tag its proxy does not hold.
Fails(f) == Alone(f).err # "none"

\* The calls build() makes itself, in order.
OwnCalls(log) == SelectSeq(log, LAMBDA e : e.by # 0)

\* The walk of the tree: a node's start, its children in order, its end; a
\* text child is one data call, a pre-formatted child is one data call with
\* the original fragment when processing it fails, and none otherwise.
RECURSIVE Walk(_, _)
RECURSIVE WalkChildren(_, _, _)
WalkChildren(ns, n, i) ==
    IF i > Len(ns[n].children) THEN <<>>
    ELSE LET c == ns[n].children[i]
         IN  (IF c.kind = "node" THEN Walk(ns, c.ref)
              ELSE IF i \notin ns[n].formatted \/ Fails(c.str) THEN <<DataEv(c.str, n)>>
              ELSE <<>>)
             \o WalkChildren(ns, n, i + 1)

Walk(ns, n) ==
    <<StartEv(TagnameOf(ns[n]), NoAttrs, n)>>
    \o WalkChildren(ns, n, 1)
    \o <<EndEv(TagnameOf(ns[n]), n)>>

\* C2: build never propagates a failure raised while a pre-formatted child
\* is processed; the calls build makes itself are exactly the walk of the
\* tree in which every failing fragment is written as a text call with the
\* original fragment, followed by the remaining siblings and the close of
\* every enclosing node, and then the sink is closed.
C2_FailureContained ==
    phase = "built" =>
        /\ err = "none"
        /\ OwnCalls(out) = Walk(nodes, 1) \o <<CloseEv(1)>>

\* A fragment in a nested node forwards an open, then fails; a sibling follows.
C2_Witness ==
    /\ phase = "built"
    /\ Len(nodes) >= 2
    /\ \E i \in nodes[2].formatted :
          /\ Fails(nodes[2].children[i].str)
          /\ Alone(nodes[2].children[i].str).p.builder # <<>>
          /\ i < Len(nodes[2].children)
    /\ err = "none"

\* C3: the complete call sequence build sends to the sink is properly
\* nested: every end names the innermost element still open, which was
\* started by the same node (or, for a proxy's end, by a proxy), and at the
\* end nothing is left open.
C3_StreamNested ==
    phase = "built" =>
        LET n == Nesting(out)
        IN  n.ok /\ n.stack = <<>>

\* The part of C3 that holds: a fragment never ends an element of an
\* enclosing node.
C3_NoOuterClose ==
    phase = "built" =>
        \A k \in 1..Len(out) :
            (out[k].ev = "end" /\ out[k].by = 0) =>
                LET n == Nesting(SubSeq(out, 1, k - 1))
                IN  n.stack # <<>> /\ Last(n.stack).by = 0 /\ Last(n.stack).tag = out[k].tag

----------------------------------------------------------------------------
(* Claims about find, under SpecFind *)

IsProperPrefix(p, q) == Len(p) < Len(q) /\ SubSeq(q, 1, Len(p)) = p

\* x comes before y in a pre-order walk: x is an ancestor of y, or they part
\* at some node where x lies in an earlier child.
PreOrderBefore(ns, x, y) ==
    LET p == PathOf(ns, x)
        q == PathOf(ns, y)
    IN  \/ IsProperPrefix(p, q)
        \/ \E k \in 1..Len(p) :
              /\ k <= Len(q)
              /\ SubSeq(p, 1, k - 1) = SubSeq(q, 1, k - 1)
              /\ p[k] < q[k]

\* C5: find(tagname) on a node returns every descendant node of that name,
\* at any depth, each once and in pre-order; never the node itself nor a
\* str child.
C5_FindPreOrder ==
    phase = "found" =>
        LET n    == call.node
            want == {d \in 1..Len(nodes) :
                        /\ IsProperPrefix(PathOf(nodes, n), PathOf(nodes, d))
                        /\ TagnameOf(nodes[d]) = call.tag}
        IN  /\ \A i \in 1..Len(matches) : matches[i].kind = "node"
            /\ {matches[i].ref : i \in 1..Len(matches)} = want
            /\ Len(matches) = Cardinality(want)
            /\ \A i, j \in 1..Len(matches) :
                  i < j => PreOrderBefore(nodes, matches[i].ref, matches[j].ref)

\* find("a") on the root of div > [a > a, a]: the nested anchor comes second.
C5_Witness ==
    /\ phase = "found"
    /\ call.node = 1
    /\ call.tag = "a"
    /\ Len(matches) = 3
    /\ PathOf(nodes, matches[2].ref) = <<1, 1>>
    /\ PathOf(nodes, matches[3].ref) = <<2>>

----------------------------------------------------------------------------
(* Claims about attrs, under SpecAttrs *)

\* s without its leading and trailing "_".
Stripped(s) ==
    LET keep == {i \in 1..Len(s) : s[i] # "_"}
    IN  IF keep = {} THEN <<>>
        ELSE SubSeq(s, CHOOSE i \in keep : \A j \in keep : i <= j,
                       CHOOSE i \in keep : \A j \in keep : j <= i)

\* The output names raw entry i gives rise to.
NamesOf(raw, i) ==
    IF raw[i].value.isdict
    THEN {Stripped(raw[i].key) \o <<"-">> \o raw[i].value.items[j].key :
             j \in 1..Len(raw[i].value.items)}
    ELSE {Stripped(raw[i].key)}

\* Each raw entry maps to its own entries of the flat mapping.
EntriesRight(raw, flat) ==
    /\ DOMAIN flat = UNION {NamesOf(raw, i) : i \in 1..Len(raw)}
    /\ \A i \in 1..Len(raw) :
          IF raw[i].value.isdict
          THEN \A j \in 1..Len(raw[i].value.items) :
                  LET it == raw[i].value.items[j]
                  IN  flat[Stripped(raw[i].key) \o <<"-">> \o it.key] = StrValue(it.value)
          ELSE flat[Stripped(raw[i].key)] = raw[i].value

\* No two raw entries give rise to the same output name.
NoCollision(raw) ==
    \A i, j \in 1..Len(raw) : i # j => NamesOf(raw, i) \cap NamesOf(raw, j) = {}

\* C7, as stated: for every raw bag, attrs() holds exactly one entry
\* "<key>-<subkey>" per subkey of a dict value and none for its outer key,
\* and the entry "<key>" with the value unchanged for any other raw key,
\* keys stripped of leading and trailing "_".
C7_AttrsFlat ==
    phase = "done" => EntriesRight(nodes[1].attrs, clean_attrs)

\* C7, amended: the same, for raw bags in which no two entries give rise to
\* the same output name.
C7_AttrsFlatNoCollision ==
    (phase = "done" /\ NoCollision(nodes[1].attrs)) => EntriesRight(nodes[1].attrs, clean_attrs)

\* The key "c_" with a dict value of two subkeys.
C7_Witness ==
    /\ phase = "done"
    /\ nodes[1].attrs = <<[key |-> <<"c", "_">>,
                           value |-> DictValue(<<[key |-> <<"c">>, value |-> <<"v">>],
                                                 [key |-> <<"_">>, value |-> <<"w">>]>>)]>>
    /\ DOMAIN clean_attrs = {<<"c", "-", "c">>, <<"c", "-", "_">>}

----------------------------------------------------------------------------
(* Claims about Document.build, under SpecDoc *)

\* The calls of the body subtree of the Document.
BodyCalls == HTMLBuilder_build(nodes, 1, Running(<<>>), FALSE).root

\* C8: without a sink, Document.build emits start html, the head (title if
\* set, metas, stylesheet links, scripts), the body subtree, end html; with
\* the caller's sink (the Document is a nested child) it emits the body
\* subtree only: no html start, no head, no html end, and it does not close
\* the caller's sink.
C8_WrapperOnlyOutermost ==
    phase = "built" =>
        IF Wrapper(nodes) = 0
        THEN out = HeadCalls(nodes[1], 1) \o BodyCalls \o <<EndEv("html", 1), CloseEv(1)>>
        ELSE LET h == Wrapper(nodes)
             IN  out = <<StartEv("div", NoAttrs, h)>> \o BodyCalls
                       \o <<EndEv("div", h), CloseEv(h)>>

\* The half of C8 that holds: the outermost serialization.
C8_Outermost ==
    (phase = "built" /\ Wrapper(nodes) = 0) =>
        out = HeadCalls(nodes[1], 1) \o BodyCalls \o <<EndEv("html", 1), CloseEv(1)>>


----------------------------------------------------------------------------
(* C6, C10: BootstrapNavbar.setLevel *)

\* "/".join(parts)
RECURSIVE SlashJoin(_)
SlashJoin(parts) ==
    IF parts = <<>> THEN <<>>
    ELSE IF Len(parts) = 1 THEN parts[1]
    ELSE parts[1] \o <<"/">> \o SlashJoin(Tail(parts))

\* The segments after the leading ".." segments.
RECURSIVE DropLeadingDots(_)
DropLeadingDots(parts) ==
    IF parts # <<>> /\ Head(parts) = <<"..">> THEN DropLeadingDots(Tail(parts)) ELSE parts

\* Node k is an anchor of the navbar with an href that does not start with "/".
Rewritable(ns, k) ==
    /\ k > 1
    /\ TagnameOf(ns[k]) = "a"
    /\ HasKey(ns[k].attrs, <<"href">>)
    /\ LET href == GetItem(ns[k].attrs, <<"href">>).str
       IN  href = <<>> \/ Head(href) # "/"

\* The nodes with every rewritable href replaced by `level` ".." segments
\* followed by its segments after the leading ".." ones.
Rewritten(ns, level) ==
    [k \in 1..Len(ns) |->
        IF Rewritable(ns, k)
        THEN [ns[k] EXCEPT !.attrs =
                 PutItem(@, <<"href">>,
                         StrValue(SlashJoin(Dots(level) \o
                             DropLeadingDots(Split(GetItem(ns[k].attrs, <<"href">>).str)))))]
        ELSE ns[k]]

\* C6: setLevel(L) succeeds, replaces the href of every anchor whose href
\* does not start with "/" by L ".." segments followed by the segments of
\* the href after its leading ".." segments, and leaves every other node
\* as it was.
C6_Rewrite ==
    [][call'.op = "setLevel" =>
          /\ err' = "none"
          /\ nodes' = Rewritten(nodes, call'.level)]_vars

\* The part of C6 that does hold: where setLevel succeeds and no href has an
\* empty segment after its leading "..", the hrefs are the ones C6 names.
NoEmptySegment(ns) ==
    \A k \in 1..Len(ns) :
        Rewritable(ns, k) =>
            \A p \in Range(DropLeadingDots(Split(GetItem(ns[k].attrs, <<"href">>).str))) :
                p # <<>>

C6_RewriteWhereJoinable ==
    [][call'.op = "setLevel" /\ err' = "none" /\ NoEmptySegment(nodes) =>
          nodes' = Rewritten(nodes, call'.level)]_vars

\* C10: a second or later setLevel(L) succeeds and leaves the navbar as
\* setLevel(L) alone leaves the navbar the constructor made.
C10_Reapply ==
    call.op = "setLevel" /\ call.n >= 2 =>
        /\ err = "none"
        /\ nodes = BootstrapNavbar_setLevel(nodes0, 1, call.level).nodes

\* C10 fails without any exception as well: here every call so far has
\* succeeded, and so does setLevel(L) alone.
C10_ReapplyWithoutFailure ==
    /\ call.op = "setLevel"
    /\ call.n >= 2
    /\ err = "none"
    /\ BootstrapNavbar_setLevel(nodes0, 1, call.level).err = "none"
    => nodes = BootstrapNavbar_setLevel(nodes0, 1, call.level).nodes

====
